---- MODULE Spec2Model ----
(***************************************************************************)
(* Parameter / state / callback engine of the Syd viewer.                  *)
(*                                                                         *)
(* Ten specifications share the variables below:                           *)
(*   SpecParam     one parameter, created with arbitrary arguments and     *)
(*                 then updated with arbitrary subsets of its fields;      *)
(*   SpecRange     bounded and range parameters over a wider value set;    *)
(*   SpecMulti     one multiple-selection parameter;                       *)
(*   SpecFloat     one float parameter with steps of several sizes;        *)
(*   Spec          the viewer: registry, deployment phase, callback        *)
(*                 registry and the dispatch of GUI triggers;              *)
(*   SpecDispatch  a deployed viewer that takes arbitrary requests and     *)
(*                 whose plot function may raise; SpecDispatchFair adds    *)
(*                 that a handler runs to its end;                         *)
(*   SpecRegister  the registration of callbacks of any signature;         *)
(*   SpecControls  the range control of the browser page (viewer.js);      *)
(*   SpecPage      the requests and responses of the web page              *)
(*                 (viewer.html).                                          *)
(*                                                                         *)
(* Float quantities are fixed-point integers (ticks).  An update is a      *)
(* dictionary (a function whose domain is the set of supplied fields): a   *)
(* field that is left at NoUpdate is absent from the domain.               *)
(***************************************************************************)
EXTENDS Integers, Sequences, FiniteSets, TLC

VARIABLES
    phase,      \* "Configuring" | "Live"   (viewer._app_deployed)
    order,      \* registry: sequence of parameter names in insertion order
    params,     \* registry: name -> parameter record
    callbacks,  \* callback registry: name -> sequence of callback ids
    pc,         \* position of the dispatch: "idle" | "callbacks" | "running" | "done"
    trig,       \* the trigger being dispatched: [kind, name, raw, typed]
    S1,         \* snapshot computed after the root update
    cbi,        \* index of the next callback to invoke
    todo,       \* updates the running callback has still to issue
    log,        \* events of the current dispatch
    figure,     \* last rendered artifact (viewer.figure), None before the first
    call,       \* the last public call: [op, name, args]
    outcome,    \* its result: "ok" or the error raised
    warned,     \* TRUE iff it emitted a ParameterUpdateWarning
    controls,   \* viewer.js: state[name] and the widgets of a range control
    page        \* viewer.html: requests on their way and the plot on display

vars == <<phase, order, params, callbacks, pc, trig, S1, cbi, todo, log, figure,
          call, outcome, warned, controls, page>>

\* The browser's side.
Browser == <<controls, page>>

----------------------------------------------------------------------------
(* Bounds *)

MaxVal == 2
MaxOpt == 3
MaxOptLen == 2
MaxStep == 2

MaxRangeVal == 1
MaxMultiOpt == 2
MaxMultiLen == 2

Vals == 0..MaxVal
Opts == 1..MaxOpt
Steps == 1..MaxStep
RangeVals == 0..MaxRangeVal
RangePairs == RangeVals \X RangeVals
MultiOpts == 1..MaxMultiOpt

----------------------------------------------------------------------------
(* Generic helpers *)

Min2(a, b) == IF a <= b THEN a ELSE b
Max2(a, b) == IF a <= b THEN b ELSE a

Range(s) == {s[i] : i \in DOMAIN s}

NoDup(s) == \A i, j \in DOMAIN s : i # j => s[i] # s[j]

SeqsUpTo(S, n) == UNION {[1..k -> S] : k \in 0..n}

OptionSeqs == {s \in SeqsUpTo(Opts, MaxOptLen) : NoDup(s)}

\* Dictionaries over a set of field names: every subset of fields may be supplied.
Dicts(fields, V) == UNION {[d -> V] : d \in SUBSET fields}

Has(u, f) == f \in DOMAIN u

\* Mutation: a supplied value of zero is taken for a field that was left out.
Field_ZeroIsNoUpdate(u, f, cur) ==
    IF Has(u, f) /\ (f = "options" \/ u[f] # 0) THEN u[f] ELSE cur

\* A field of the update if supplied, otherwise the current one (NoUpdate).
Field(u, f, cur) == IF Has(u, f) THEN u[f] ELSE cur

----------------------------------------------------------------------------
(* Parameters *)

\* Mutation: only the lower bound is enforced.
AdjustValueToBounds_LowerOnly(v, lo, hi) ==
    IF v < lo THEN lo ELSE v

\* Clamp a value into [lo, hi] (value below -> lo, value above -> hi).
AdjustValueToBounds(v, lo, hi) ==
    IF v < lo THEN lo ELSE IF v > hi THEN hi ELSE v

\* Nearest multiple of step counted from lo; a tie rounds to the even multiple.
RoundToStep(v, lo, step) ==
    LET d == v - lo
        q == d \div step
        r == d % step
        k == IF 2 * r < step THEN q
             ELSE IF 2 * r > step THEN q + 1
             ELSE IF q % 2 = 0 THEN q ELSE q + 1
    IN  lo + k * step

ParamResult(p, w, e) == [param |-> p, warn |-> w, err |-> e]

IntegerParameter(mn, mx, v) ==
    [type |-> "integer", min |-> mn, max |-> mx, value |-> v]

FloatParameter(mn, mx, v, st) ==
    [type |-> "float", min |-> mn, max |-> mx, value |-> v, step |-> st]

SelectionParameter(opts, v) ==
    [type |-> "selection", options |-> opts, value |-> v]

ButtonAction(cb, rp) ==
    [type |-> "button", callback |-> cb, replot |-> rp]

\* Mutation: bounds given with min > max are refused.
IntegerReconcile_Reject(mn, mx, v) ==
    LET nv == AdjustValueToBounds(v, Min2(mn, mx), Max2(mn, mx))
    IN  IF mn > mx
        THEN ParamResult(IntegerParameter(mn, mx, v), FALSE, "ParameterUpdateError")
        ELSE ParamResult(IntegerParameter(mn, mx, nv), nv # v, "")

\* Mutation: a clamped value is not reported.
IntegerReconcile_SilentClamp(mn, mx, v) ==
    LET lo == Min2(mn, mx)
        hi == Max2(mn, mx)
        nv == AdjustValueToBounds(v, lo, hi)
    IN  ParamResult(IntegerParameter(lo, hi, nv), mn > mx, "")

\* Mutation: a value on a bound is taken for a clamped one.
IntegerReconcile_WarnOnBound(mn, mx, v) ==
    LET lo == Min2(mn, mx)
        hi == Max2(mn, mx)
        nv == AdjustValueToBounds(v, lo, hi)
    IN  ParamResult(IntegerParameter(lo, hi, nv), mn > mx \/ v <= lo \/ v >= hi, "")

\* Bounded integer: inverted bounds are swapped, the value is clamped.
IntegerReconcile(mn, mx, v) ==
    LET lo == Min2(mn, mx)
        hi == Max2(mn, mx)
        nv == AdjustValueToBounds(v, lo, hi)
    IN  ParamResult(IntegerParameter(lo, hi, nv), mn > mx \/ nv # v, "")

\* Mutation: the value of a float is clamped as it is given.
FloatReconcile_NoRounding(mn, mx, v, st) ==
    LET lo == Min2(mn, mx)
        hi == Max2(mn, mx)
        nv == AdjustValueToBounds(v, lo, hi)
    IN  ParamResult(FloatParameter(lo, hi, nv, st), mn > mx \/ nv # v, "")

\* Bounded float: as integer, the value being rounded to the step first.
FloatReconcile(mn, mx, v, st) ==
    LET lo == Min2(mn, mx)
        hi == Max2(mn, mx)
        rv == RoundToStep(v, lo, st)
        nv == AdjustValueToBounds(rv, lo, hi)
    IN  ParamResult(FloatParameter(lo, hi, nv, st), mn > mx \/ nv # rv, "")

IntegerCreate(mn, mx, v) == IntegerReconcile(mn, mx, v)

FloatCreate(mn, mx, v, st) == FloatReconcile(mn, mx, v, st)

\* Selection: options must be non-empty and the initial value one of them.
SelectionCreate(opts, v) ==
    IF opts = <<>> \/ v \notin Range(opts)
    THEN ParamResult(SelectionParameter(opts, v), FALSE, "ParameterAddError")
    ELSE ParamResult(SelectionParameter(opts, v), FALSE, "")

\* Mutation: a supplied value is clamped into the bounds in place before the
\* supplied bounds are taken.
IntegerUpdate_OldBoundsFirst(p, u) ==
    LET v == AdjustValueToBounds(Field(u, "value", p.value), p.min, p.max)
        r == IntegerReconcile(Field(u, "min", p.min), Field(u, "max", p.max), v)
    IN  ParamResult(r.param, r.warn \/ v # Field(u, "value", p.value), r.err)

IntegerUpdate(p, u) ==
    IntegerReconcile(Field(u, "min", p.min), Field(u, "max", p.max),
                     Field(u, "value", p.value))

FloatUpdate(p, u) ==
    FloatReconcile(Field(u, "min", p.min), Field(u, "max", p.max),
                   Field(u, "value", p.value), Field(u, "step", p.step))

\* Mutation: new options leave the current value where it is.
SelectionUpdate_NoMigration(p, u) ==
    LET opts == Field(u, "options", p.options)
    IN  IF opts = <<>>
        THEN ParamResult(p, FALSE, "ParameterUpdateError")
        ELSE IF Has(u, "value")
        THEN IF u["value"] \in Range(opts)
             THEN ParamResult(SelectionParameter(opts, u["value"]), FALSE, "")
             ELSE ParamResult(p, FALSE, "ParameterUpdateError")
        ELSE ParamResult(SelectionParameter(opts, p.value), FALSE, "")

\* Mutation: new options always move the value to the first of them.
SelectionUpdate_ResetToFirst(p, u) ==
    LET opts == Field(u, "options", p.options)
    IN  IF opts = <<>>
        THEN ParamResult(p, FALSE, "ParameterUpdateError")
        ELSE IF Has(u, "value")
        THEN IF u["value"] \in Range(opts)
             THEN ParamResult(SelectionParameter(opts, u["value"]), FALSE, "")
             ELSE ParamResult(p, FALSE, "ParameterUpdateError")
        ELSE IF Has(u, "options")
        THEN ParamResult(SelectionParameter(opts, opts[1]), opts[1] # p.value, "")
        ELSE ParamResult(p, FALSE, "")

\* Mutation: an explicit value outside the options is replaced by the first
\* option instead of being refused.
SelectionUpdate_Lenient(p, u) ==
    LET opts == Field(u, "options", p.options)
        v == Field(u, "value", p.value)
    IN  IF opts = <<>>
        THEN ParamResult(p, FALSE, "ParameterUpdateError")
        ELSE IF v \in Range(opts)
        THEN ParamResult(SelectionParameter(opts, v), FALSE, "")
        ELSE ParamResult(SelectionParameter(opts, opts[1]), TRUE, "")

\* Selection update: an explicit value must be one of the options in force;
\* a current value that is not among new options migrates to the first one.
SelectionUpdate(p, u) ==
    LET opts == Field(u, "options", p.options)
    IN  IF opts = <<>>
        THEN ParamResult(p, FALSE, "ParameterUpdateError")
        ELSE IF Has(u, "value")
        THEN IF u["value"] \in Range(opts)
             THEN ParamResult(SelectionParameter(opts, u["value"]), FALSE, "")
             ELSE ParamResult(p, FALSE, "ParameterUpdateError")
        ELSE IF p.value \in Range(opts)
        THEN ParamResult(SelectionParameter(opts, p.value), FALSE, "")
        ELSE ParamResult(SelectionParameter(opts, opts[1]), TRUE, "")

IntegerRangeParameter(mn, mx, v) ==
    [type |-> "integer_range", min |-> mn, max |-> mx, value |-> v]

FloatRangeParameter(mn, mx, v, st) ==
    [type |-> "float_range", min |-> mn, max |-> mx, value |-> v, step |-> st]

MultipleSelectionParameter(opts, v) ==
    [type |-> "multiple_selection", options |-> opts, value |-> v]

\* Mutation: a range is stored in the order it was given.
RangeOrder_AsGiven(v) == v

\* A range (low, high) given with low > high has its two elements swapped.
RangeOrder(v) == IF v[1] > v[2] THEN <<v[2], v[1]>> ELSE v

ClampRange(v, lo, hi) ==
    <<AdjustValueToBounds(v[1], lo, hi), AdjustValueToBounds(v[2], lo, hi)>>

\* Mutation: a range given with low > high is refused.
IntegerRangeReconcile_Strict(mn, mx, v) ==
    LET lo == Min2(mn, mx)
        hi == Max2(mn, mx)
        nv == ClampRange(v, lo, hi)
    IN  IF v[1] > v[2]
        THEN ParamResult(IntegerRangeParameter(lo, hi, nv), FALSE, "ValueError")
        ELSE ParamResult(IntegerRangeParameter(lo, hi, nv), mn > mx \/ nv # v, "")

\* Mutation: a range given with low > high is put in order without a word.
IntegerRangeReconcile_SilentSwap(mn, mx, v) ==
    LET lo == Min2(mn, mx)
        hi == Max2(mn, mx)
        nv == ClampRange(RangeOrder(v), lo, hi)
    IN  ParamResult(IntegerRangeParameter(lo, hi, nv),
                    mn > mx \/ nv # RangeOrder(v), "")

\* Integer range: inverted bounds are swapped, an inverted range is swapped,
\* both ends are clamped.
IntegerRangeReconcile(mn, mx, v) ==
    LET lo == Min2(mn, mx)
        hi == Max2(mn, mx)
        nv == ClampRange(RangeOrder(v), lo, hi)
    IN  ParamResult(IntegerRangeParameter(lo, hi, nv), mn > mx \/ nv # v, "")

\* Float range: as integer range, both ends being rounded to the step first.
FloatRangeReconcile(mn, mx, v, st) ==
    LET lo == Min2(mn, mx)
        hi == Max2(mn, mx)
        rv == <<RoundToStep(v[1], lo, st), RoundToStep(v[2], lo, st)>>
        nv == ClampRange(RangeOrder(rv), lo, hi)
    IN  ParamResult(FloatRangeParameter(lo, hi, nv, st), mn > mx \/ nv # rv, "")

IntegerRangeCreate(mn, mx, v) == IntegerRangeReconcile(mn, mx, v)

FloatRangeCreate(mn, mx, v, st) == FloatRangeReconcile(mn, mx, v, st)

IntegerRangeUpdate(p, u) ==
    IntegerRangeReconcile(Field(u, "min", p.min), Field(u, "max", p.max),
                          Field(u, "value", p.value))

FloatRangeUpdate(p, u) ==
    FloatRangeReconcile(Field(u, "min", p.min), Field(u, "max", p.max),
                        Field(u, "value", p.value), Field(u, "step", p.step))

\* The elements of s, each once, in the order of their first occurrence.
Unique(s) ==
    LET RECURSIVE U(_)
        U(k) == IF k = 0 THEN <<>>
                ELSE IF s[k] \in Range(U(k - 1)) THEN U(k - 1)
                ELSE Append(U(k - 1), s[k])
    IN  U(Len(s))

\* Multiple selection: options must be non-empty and every selected element
\* one of them; the selection is stored without duplicates.
MultipleSelectionCreate(opts, v) ==
    IF opts = <<>> \/ ~(Range(v) \subseteq Range(opts))
    THEN ParamResult(MultipleSelectionParameter(opts, v), FALSE, "ParameterAddError")
    ELSE ParamResult(MultipleSelectionParameter(opts, Unique(v)), FALSE, "")

\* Mutation: new options leave the selection where it is.
MultipleSelectionUpdate_NoFilter(p, u) ==
    LET opts == Field(u, "options", p.options)
    IN  IF opts = <<>>
        THEN ParamResult(p, FALSE, "ParameterUpdateError")
        ELSE IF Has(u, "value")
        THEN IF Range(u["value"]) \subseteq Range(opts)
             THEN ParamResult(MultipleSelectionParameter(opts, Unique(u["value"])), FALSE, "")
             ELSE ParamResult(p, FALSE, "ParameterUpdateError")
        ELSE ParamResult(MultipleSelectionParameter(opts, p.value), FALSE, "")

\* Multiple selection update: an explicit selection must lie within the
\* options in force; selected elements that are not among new options are
\* dropped from the selection.
MultipleSelectionUpdate(p, u) ==
    LET opts == Field(u, "options", p.options)
        kept == SelectSeq(p.value, LAMBDA x : x \in Range(opts))
    IN  IF opts = <<>>
        THEN ParamResult(p, FALSE, "ParameterUpdateError")
        ELSE IF Has(u, "value")
        THEN IF Range(u["value"]) \subseteq Range(opts)
             THEN ParamResult(MultipleSelectionParameter(opts, Unique(u["value"])), FALSE, "")
             ELSE ParamResult(p, FALSE, "ParameterUpdateError")
        ELSE ParamResult(MultipleSelectionParameter(opts, kept), kept # p.value, "")

\* Parameter.update, by variant.
ParameterUpdate(p, u) ==
    CASE p.type = "integer"   -> IntegerUpdate(p, u)
      [] p.type = "float"     -> FloatUpdate(p, u)
      [] p.type = "selection" -> SelectionUpdate(p, u)
      [] p.type = "integer_range" -> IntegerRangeUpdate(p, u)
      [] p.type = "float_range"   -> FloatRangeUpdate(p, u)
      [] p.type = "multiple_selection" -> MultipleSelectionUpdate(p, u)
      [] OTHER                -> ParamResult(p, FALSE, "ParameterUpdateError")

IntegerUpdates == Dicts({"value", "min", "max"}, Vals)

FloatUpdates ==
    {u \in Dicts({"value", "min", "max", "step"}, Vals) :
        Has(u, "step") => u["step"] \in Steps}

SelectionUpdates ==
    {<<>>} \cup {[value |-> v] : v \in Opts}
           \cup {[options |-> o] : o \in OptionSeqs}
           \cup {[value |-> v, options |-> o] : v \in Opts, o \in OptionSeqs}

ValueDicts(V) == {<<>>} \cup {[value |-> v] : v \in V}

IntegerRangeUpdates ==
    {b @@ v : b \in Dicts({"min", "max"}, RangeVals), v \in ValueDicts(RangePairs)}

FloatRangeUpdates ==
    {b @@ v : b \in {u \in Dicts({"min", "max", "step"}, RangeVals \cup Steps) :
                        /\ Has(u, "step") => u["step"] \in Steps
                        /\ Has(u, "min") => u["min"] \in RangeVals
                        /\ Has(u, "max") => u["max"] \in RangeVals},
              v \in ValueDicts(RangePairs)}

\* Option lists of a multiple selection, written in increasing order.
MultiOptionSeqs ==
    {s \in SeqsUpTo(MultiOpts, MaxMultiOpt) : \A i, j \in DOMAIN s : i < j => s[i] < s[j]}

MultiValueSeqs == SeqsUpTo(MultiOpts, MaxMultiLen)

MultipleSelectionUpdates ==
    {o @@ v : o \in {<<>>} \cup {[options |-> x] : x \in MultiOptionSeqs},
              v \in ValueDicts(MultiValueSeqs)}

----------------------------------------------------------------------------
(* SpecParam: one parameter "p", created and then updated *)

None == [none |-> TRUE]

\* No page is open in a browser.
BrowserClosed == controls = None /\ page = None

NoCall == [op |-> "none", name |-> "", args |-> <<>>]

NoTrigger == [kind |-> "none", name |-> "", raw |-> 0, typed |-> TRUE]

Call(o, n, a) == [op |-> o, name |-> n, args |-> a]

EngineIdle ==
    /\ BrowserClosed
    /\ phase = "Live"
    /\ order = <<"p">>
    /\ callbacks = <<>>
    /\ pc = "idle"
    /\ trig = NoTrigger
    /\ S1 = <<>>
    /\ cbi = 0
    /\ todo = <<>>
    /\ log = <<>>
    /\ figure = None

Created(r, o, a) ==
    /\ r.err = ""
    /\ params = ("p" :> r.param)
    /\ call = Call(o, "p", a)
    /\ outcome = "ok"
    /\ warned = r.warn

InitParam ==
    /\ EngineIdle
    /\ \/ \E mn, mx, v \in Vals :
             Created(IntegerCreate(mn, mx, v), "add_integer", <<mn, mx, v>>)
       \/ \E mn, mx, v \in Vals, st \in Steps :
             Created(FloatCreate(mn, mx, v, st), "add_float", <<mn, mx, v, st>>)
       \/ \E o \in OptionSeqs, v \in Opts :
             Created(SelectionCreate(o, v), "add_selection", <<o, v>>)

\* Mutation: the options supplied are stored before the value is looked at,
\* and stay stored when the value is refused.
Updated_OptionsFirst(o, u) ==
    LET r == ParameterUpdate(params["p"], u)
    IN  /\ params' = IF r.err = "" THEN ("p" :> r.param)
                     ELSE IF Has(u, "options") /\ u["options"] # <<>>
                     THEN ("p" :> [params["p"] EXCEPT !.options = u["options"]])
                     ELSE params
        /\ call' = Call(o, "p", u)
        /\ outcome' = IF r.err = "" THEN "ok" ELSE r.err
        /\ warned' = r.warn
        /\ UNCHANGED <<Browser, phase, order, callbacks, pc, trig, S1, cbi, todo, log, figure>>

\* Parameter.update: all or nothing; a failed update leaves the parameter alone.
Updated(o, u) ==
    LET r == ParameterUpdate(params["p"], u)
    IN  /\ params' = IF r.err = "" THEN ("p" :> r.param) ELSE params
        /\ call' = Call(o, "p", u)
        /\ outcome' = IF r.err = "" THEN "ok" ELSE r.err
        /\ warned' = r.warn
        /\ UNCHANGED <<Browser, phase, order, callbacks, pc, trig, S1, cbi, todo, log, figure>>

ParamUpdateInteger ==
    /\ params["p"].type = "integer"
    /\ \E u \in IntegerUpdates : Updated("update_integer", u)

ParamUpdateFloat ==
    /\ params["p"].type = "float"
    /\ \E u \in FloatUpdates : Updated("update_float", u)

ParamUpdateSelection ==
    /\ params["p"].type = "selection"
    /\ \E u \in SelectionUpdates : Updated("update_selection", u)

ParamUpdateIntegerRange ==
    /\ params["p"].type = "integer_range"
    /\ \E u \in IntegerRangeUpdates : Updated("update_integer_range", u)

ParamUpdateFloatRange ==
    /\ params["p"].type = "float_range"
    /\ \E u \in FloatRangeUpdates : Updated("update_float_range", u)

ParamUpdateMultipleSelection ==
    /\ params["p"].type = "multiple_selection"
    /\ \E u \in MultipleSelectionUpdates : Updated("update_multiple_selection", u)

NextParam ==
    \/ ParamUpdateInteger
    \/ ParamUpdateFloat
    \/ ParamUpdateSelection

SpecParam == InitParam /\ [][NextParam]_vars

----------------------------------------------------------------------------
(* SpecRange: one bounded numeric or range parameter "p" *)

InitRange ==
    /\ EngineIdle
    /\ \/ \E mn, mx, v \in RangeVals :
             Created(IntegerCreate(mn, mx, v), "add_integer", <<mn, mx, v>>)
       \/ \E mn, mx, v \in RangeVals, st \in Steps :
             Created(FloatCreate(mn, mx, v, st), "add_float", <<mn, mx, v, st>>)
       \/ \E mn, mx \in RangeVals, v \in RangePairs :
             Created(IntegerRangeCreate(mn, mx, v), "add_integer_range", <<mn, mx, v>>)
       \/ \E mn, mx \in RangeVals, v \in RangePairs, st \in Steps :
             Created(FloatRangeCreate(mn, mx, v, st), "add_float_range", <<mn, mx, v, st>>)

BoundUpdates == Dicts({"value", "min", "max"}, RangeVals)

RangeUpdateInteger ==
    /\ params["p"].type = "integer"
    /\ \E u \in BoundUpdates : Updated("update_integer", u)

BoundStepUpdates ==
    {u \in Dicts({"value", "min", "max", "step"}, RangeVals \cup Steps) :
        /\ Has(u, "step") => u["step"] \in Steps
        /\ \A f \in DOMAIN u \ {"step"} : u[f] \in RangeVals}

RangeUpdateFloat ==
    /\ params["p"].type = "float"
    /\ \E u \in BoundStepUpdates : Updated("update_float", u)

NextRange ==
    \/ RangeUpdateInteger
    \/ RangeUpdateFloat
    \/ ParamUpdateIntegerRange
    \/ ParamUpdateFloatRange

SpecRange == InitRange /\ [][NextRange]_vars

----------------------------------------------------------------------------
(* SpecMulti: one multiple-selection parameter "p" *)

InitMulti ==
    /\ EngineIdle
    /\ \E o \in MultiOptionSeqs, v \in MultiValueSeqs :
          Created(MultipleSelectionCreate(o, v), "add_multiple_selection", <<o, v>>)

NextMulti == ParamUpdateMultipleSelection

SpecMulti == InitMulti /\ [][NextMulti]_vars

----------------------------------------------------------------------------
(* SpecFloat: one float parameter "p" whose step can be wider than two ticks,
   so that a value can lie nearer to one multiple of the step than to the
   next *)

MaxFloatStep == 3

FloatSteps == 1..MaxFloatStep

InitFloat ==
    /\ EngineIdle
    /\ \E mn, mx, v \in Vals, st \in FloatSteps :
          Created(FloatCreate(mn, mx, v, st), "add_float", <<mn, mx, v, st>>)

SteppedUpdates ==
    {u \in Dicts({"value", "min", "max", "step"}, Vals \cup FloatSteps) :
        /\ Has(u, "step") => u["step"] \in FloatSteps
        /\ \A f \in DOMAIN u \ {"step"} : u[f] \in Vals}

FloatUpdateStepped ==
    \E u \in SteppedUpdates : Updated("update_float", u)

NextFloat == FloatUpdateStepped

SpecFloat == InitFloat /\ [][NextFloat]_vars

----------------------------------------------------------------------------
(* The viewer *)

MaxCallbacks == 2
MaxEngineVal == 1

\* The viewer's constructor adds its parameters in this order.
AddOrder == <<"a", "b", "go">>

ParamNames == {"a", "b"}
ButtonNames == {"go"}
EngineVals == 0..MaxEngineVal

\* The names an add call is tried with: those added so far and the next one.
AddNames == {AddOrder[i] : i \in 1..Min2(Len(order) + 1, Len(AddOrder))}
CallbackIds == {"update_max", "update_value"}

Registered == Range(order)

\* viewer.state: the current value of every parameter (buttons carry none).
Snapshot(ps) ==
    [n \in {m \in DOMAIN ps : ps[m].type # "button"} |-> ps[n].value]

State == Snapshot(params)

CallbacksOf(n) == IF n \in DOMAIN callbacks THEN callbacks[n] ELSE <<>>

NumCallbacks(cbs) ==
    LET RECURSIVE Sum(_)
        Sum(S) == IF S = {} THEN 0
                  ELSE LET n == CHOOSE m \in S : TRUE
                       IN  Len(cbs[n]) + Sum(S \ {n})
    IN  Sum(DOMAIN cbs)

Update(n, a) == [kind |-> "update", name |-> n, args |-> a]

Raise(e) == [kind |-> "raise", name |-> e, args |-> <<>>]

\* Callables that are no callbacks: one takes no argument, one takes two.
BadCallbackIds == {"no_args", "two_args"}

\* The number of positional parameters of a callable.
Arity(cb) ==
    CASE cb = "no_args" -> 0
      [] cb = "two_args" -> 2
      [] OTHER -> 1

\* User callbacks.  update_max narrows b to the value of a, as
\* MouseViewer.update_session narrows "neuron"; update_value sets a from b
\* when b is positive, as MyViewer.update_mode sets "mode" from "x";
\* update_mouse narrows a and then b for a mouse with a single session and a
\* single neuron, as MouseViewer.update_mouse narrows "session" and "neuron".
\* A callable of another arity cannot be called with the state.
CallbackBody(cb, st) ==
    CASE cb = "update_max" ->
            IF "a" \in DOMAIN st
            THEN <<Update("b", [max |-> st["a"]])>>
            ELSE <<Raise("KeyError")>>
      [] cb = "update_value" ->
            IF "b" \in DOMAIN st
            THEN IF st["b"] > 0 THEN <<Update("a", [value |-> st["b"]])>> ELSE <<>>
            ELSE <<Raise("KeyError")>>
      [] cb = "update_mouse" ->
            <<Update("a", [max |-> 0]), Update("b", [max |-> 0])>>
      [] cb \in BadCallbackIds -> <<Raise("TypeError")>>

\* The figure the plot function draws for a state.
Plot(st) == [state |-> st]

Event(e, c, n, st) == [ev |-> e, cb |-> c, for |-> n, state |-> st]

\* Mutation: an update of a name that is not registered is passed over.
ViewerUpdate_IgnoreMissing(ps, type, name, u) ==
    IF name \notin DOMAIN ps
    THEN [params |-> ps, warn |-> FALSE, err |-> ""]
    ELSE IF ps[name].type # type
    THEN [params |-> ps, warn |-> FALSE, err |-> "ParameterUpdateError"]
    ELSE LET r == ParameterUpdate(ps[name], u)
         IN  IF r.err # ""
             THEN [params |-> ps, warn |-> FALSE, err |-> r.err]
             ELSE [params |-> [ps EXCEPT ![name] = r.param], warn |-> r.warn, err |-> ""]

\* Mutation: update_<type> of a parameter of another type makes it one of
\* that type.
ViewerUpdate_Retype(ps, type, name, u) ==
    IF name \notin DOMAIN ps
    THEN [params |-> ps, warn |-> FALSE, err |-> "ParameterUpdateError"]
    ELSE LET p == IF ps[name].type = type THEN ps[name]
                  ELSE IntegerCreate(0, MaxEngineVal, 0).param
             r == ParameterUpdate(p, u)
         IN  IF r.err # ""
             THEN [params |-> ps, warn |-> FALSE, err |-> r.err]
             ELSE [params |-> [ps EXCEPT ![name] = r.param], warn |-> r.warn, err |-> ""]

\* update_<type>(name, ...): the parameter must exist and be of that type.
ViewerUpdate(ps, type, name, u) ==
    IF name \notin DOMAIN ps \/ ps[name].type # type
    THEN [params |-> ps, warn |-> FALSE, err |-> "ParameterUpdateError"]
    ELSE LET r == ParameterUpdate(ps[name], u)
         IN  IF r.err # ""
             THEN [params |-> ps, warn |-> FALSE, err |-> r.err]
             ELSE [params |-> [ps EXCEPT ![name] = r.param], warn |-> r.warn, err |-> ""]

Init ==
    /\ BrowserClosed
    /\ phase = "Configuring"
    /\ order = <<>>
    /\ params = <<>>
    /\ callbacks = <<>>
    /\ pc = "idle"
    /\ trig = NoTrigger
    /\ S1 = <<>>
    /\ cbi = 0
    /\ todo = <<>>
    /\ log = <<>>
    /\ figure = None
    /\ call = NoCall
    /\ outcome = "ok"
    /\ warned = FALSE

Dispatch == <<pc, trig, S1, cbi, todo, log>>

\* Mutation: the deployed state is not looked at.
Add_AnyPhase(op, name, r) ==
    /\ pc = "idle"
    /\ call' = Call(op, name, <<>>)
    /\ IF name \in Registered \/ r.err # ""
       THEN outcome' = "ParameterAddError" /\ UNCHANGED <<order, params, warned>>
       ELSE /\ order' = Append(order, name)
            /\ params' = params @@ (name :> r.param)
            /\ outcome' = "ok"
            /\ warned' = r.warn
    /\ UNCHANGED <<Browser, phase, callbacks, figure, Dispatch>>

\* Mutation: the name is not looked up before the parameter is stored.
Add_NoDuplicateCheck(op, name, r) ==
    /\ pc = "idle"
    /\ call' = Call(op, name, <<>>)
    /\ IF phase = "Live"
       THEN outcome' = "RuntimeError" /\ UNCHANGED <<order, params, warned>>
       ELSE IF r.err # ""
       THEN outcome' = "ParameterAddError" /\ UNCHANGED <<order, params, warned>>
       ELSE /\ order' = Append(order, name)
            /\ params' = (name :> r.param) @@ params
            /\ outcome' = "ok"
            /\ warned' = r.warn
    /\ UNCHANGED <<Browser, phase, callbacks, figure, Dispatch>>

\* add_<type>: refused while deployed, refused for a name already registered.
Add(op, name, r) ==
    /\ pc = "idle"
    /\ call' = Call(op, name, <<>>)
    /\ IF phase = "Live"
       THEN outcome' = "RuntimeError" /\ UNCHANGED <<order, params, warned>>
       ELSE IF name \in Registered \/ r.err # ""
       THEN outcome' = "ParameterAddError" /\ UNCHANGED <<order, params, warned>>
       ELSE /\ order' = Append(order, name)
            /\ params' = params @@ (name :> r.param)
            /\ outcome' = "ok"
            /\ warned' = r.warn
    /\ UNCHANGED <<Browser, phase, callbacks, figure, Dispatch>>

add_integer ==
    \E name \in ParamNames \cap AddNames :
        Add("add_integer", name, IntegerCreate(0, MaxEngineVal, 0))

add_button ==
    \E name \in ButtonNames \cap AddNames, rp \in BOOLEAN :
        Add("add_button", name, ParamResult(ButtonAction("update_max", rp), FALSE, ""))

\* Mutation: the signature of the callback is not looked at.
OnChange_AnySignature(ids) ==
    /\ pc = "idle"
    /\ NumCallbacks(callbacks) < MaxCallbacks
    /\ \E name \in ParamNames : \E cb \in ids \ Range(CallbacksOf(name)) :
        /\ call' = Call("on_change", name, <<>>)
        /\ IF name \notin Registered
           THEN outcome' = "ValueError" /\ UNCHANGED callbacks
           ELSE /\ callbacks' = (name :> Append(CallbacksOf(name), cb)) @@ callbacks
                /\ outcome' = "ok"
    /\ UNCHANGED <<Browser, phase, order, params, figure, warned, Dispatch>>

\* on_change(name, callback) for a callable drawn from ids: the parameter must
\* exist and the callable must take exactly one positional argument.
OnChange(ids) ==
    /\ pc = "idle"
    /\ NumCallbacks(callbacks) < MaxCallbacks
    /\ \E name \in ParamNames : \E cb \in ids \ Range(CallbacksOf(name)) :
        /\ call' = Call("on_change", name, <<>>)
        /\ IF name \notin Registered \/ Arity(cb) # 1
           THEN outcome' = "ValueError" /\ UNCHANGED callbacks
           ELSE /\ callbacks' = (name :> Append(CallbacksOf(name), cb)) @@ callbacks
                /\ outcome' = "ok"
    /\ UNCHANGED <<Browser, phase, order, params, figure, warned, Dispatch>>

\* on_change with one of the viewer's callbacks.
on_change == OnChange(CallbackIds)

\* on_change with any callable.
on_change_any_callable == OnChange(CallbackIds \cup BadCallbackIds)

EngineUpdates == {[max |-> v] : v \in EngineVals}

\* Mutation: updates are refused until the viewer is deployed.
update_integer_deployed_only ==
    /\ pc = "idle"
    /\ \E name \in ParamNames \cup ButtonNames, u \in EngineUpdates :
        LET r == IF phase = "Live"
                 THEN ViewerUpdate(params, "integer", name, u)
                 ELSE [params |-> params, warn |-> FALSE, err |-> "ParameterUpdateError"]
        IN  /\ call' = Call("update_integer", name, <<>>)
            /\ params' = r.params
            /\ warned' = r.warn
            /\ outcome' = IF r.err = "" THEN "ok" ELSE r.err
    /\ UNCHANGED <<Browser, phase, order, callbacks, figure, Dispatch>>

\* update_integer called by user code outside a dispatch, deployed or not.
update_integer ==
    /\ pc = "idle"
    /\ \E name \in ParamNames \cup ButtonNames, u \in EngineUpdates :
        LET r == ViewerUpdate(params, "integer", name, u)
        IN  /\ call' = Call("update_integer", name, <<>>)
            /\ params' = r.params
            /\ warned' = r.warn
            /\ outcome' = IF r.err = "" THEN "ok" ELSE r.err
    /\ UNCHANGED <<Browser, phase, order, callbacks, figure, Dispatch>>

\* show() / share(): enter the deployed state and draw the first figure.
deploy ==
    /\ pc = "idle"
    /\ phase = "Configuring"
    /\ phase' = "Live"
    /\ figure' = Plot(State)
    /\ call' = Call("deploy", "", <<>>)
    /\ outcome' = "ok"
    /\ UNCHANGED <<Browser, order, params, callbacks, warned, Dispatch>>

\* Leaving the _app_deployed context at the end of the deployment.
app_deployed_exit ==
    /\ pc = "idle"
    /\ phase = "Live"
    /\ phase' = "Configuring"
    /\ call' = Call("exit", "", <<>>)
    /\ outcome' = "ok"
    /\ UNCHANGED <<Browser, order, params, callbacks, figure, warned, Dispatch>>

\* The callbacks a trigger runs: those registered for the changed parameter,
\* or the button's own callback.
TriggerCallbacks ==
    CASE trig.kind = "change" -> CallbacksOf(trig.name)
      [] trig.kind = "button" -> <<params[trig.name].callback>>
      [] OTHER -> <<>>

Replots_Always == TRUE

\* A value change always replots; a button replots if its replot flag is set.
Replots == IF trig.kind = "button" THEN params[trig.name].replot ELSE TRUE

\* The values a GUI component can send: the integers of the slider, one
\* beyond its range, and a payload that is not a number (typed = FALSE).
Payloads ==
    {[raw |-> v, typed |-> TRUE] : v \in 0..(MaxEngineVal + 1)}
        \cup {[raw |-> 0, typed |-> FALSE]}

\* Mutation: the root update stores the value as it was sent.
RootUpdate_Unclamped(ps, name, pl) ==
    IF name \notin DOMAIN ps \/ ~pl.typed
    THEN [params |-> ps, warn |-> FALSE, err |-> "ParameterUpdateError"]
    ELSE [params |-> [ps EXCEPT ![name].value = pl.raw], warn |-> FALSE, err |-> ""]

\* The root update of a value change: the named parameter must exist and the
\* payload must be a value of its type; the value is then reconciled.
RootUpdate(ps, name, pl) ==
    IF name \notin DOMAIN ps \/ ~pl.typed
    THEN [params |-> ps, warn |-> FALSE, err |-> "ParameterUpdateError"]
    ELSE ViewerUpdate(ps, ps[name].type, name, [value |-> pl.raw])

\* Mutation: the callbacks are run whatever the root update came to.
AfterRootUpdate_Continue(err) == "callbacks"

\* A failed root update ends the dispatch; otherwise the callbacks are due.
AfterRootUpdate(err) == IF err = "" THEN "callbacks" ELSE "done"

\* Mutation: a request is taken up while the dispatch of another is under way.
SetParameterValue_Reentrant(names, payloads) ==
    /\ pc \in {"idle", "callbacks", "running"}
    /\ phase = "Live"
    /\ \E name \in names, pl \in payloads :
        LET r == RootUpdate(params, name, pl)
        IN  /\ params' = r.params
            /\ warned' = r.warn
            /\ S1' = IF r.err = "" THEN Snapshot(r.params) ELSE <<>>
            /\ trig' = [kind |-> "change", name |-> name, raw |-> pl.raw,
                        typed |-> pl.typed]
            /\ call' = Call("set_parameter_value", "", <<>>)
            /\ pc' = AfterRootUpdate(r.err)
            /\ outcome' = IF r.err = "" THEN "running" ELSE r.err
    /\ cbi' = 1
    /\ todo' = <<>>
    /\ log' = <<>>
    /\ UNCHANGED <<Browser, phase, order, callbacks, figure>>

\* viewer.set_parameter_value(name, value) for a trigger drawn from names and
\* payloads: the value is stored (clamped), the state is computed, and the
\* callbacks of that parameter are due; a root update that fails ends the
\* dispatch with its error.
SetParameterValue(names, payloads) ==
    /\ pc = "idle"
    /\ phase = "Live"
    /\ \E name \in names, pl \in payloads :
        LET r == RootUpdate(params, name, pl)
        IN  /\ params' = r.params
            /\ warned' = r.warn
            /\ S1' = IF r.err = "" THEN Snapshot(r.params) ELSE <<>>
            /\ trig' = [kind |-> "change", name |-> name, raw |-> pl.raw,
                        typed |-> pl.typed]
            /\ call' = Call("set_parameter_value", "", <<>>)
            /\ pc' = AfterRootUpdate(r.err)
            /\ outcome' = IF r.err = "" THEN "running" ELSE r.err
    /\ cbi' = 1
    /\ todo' = <<>>
    /\ log' = <<>>
    /\ UNCHANGED <<Browser, phase, order, callbacks, figure>>

\* The components on display: one per registered parameter that has a value.
WidgetNames == {n \in Registered : params[n].type # "button"}

\* A slider sends numbers.
WidgetPayloads == {pl \in Payloads : pl.typed}

\* A component of the notebook GUI changes value.
set_parameter_value == SetParameterValue(WidgetNames, WidgetPayloads)

\* POST /update_parameter: the request names any parameter and carries any
\* value.
update_parameter == SetParameterValue(ParamNames, Payloads)

\* A button is clicked: no value is set, its callback is due with the state.
button_click ==
    /\ pc = "idle"
    /\ phase = "Live"
    /\ \E name \in Registered :
        /\ params[name].type = "button"
        /\ trig' = [kind |-> "button", name |-> name, raw |-> 0, typed |-> TRUE]
        /\ call' = Call("button_click", "", <<>>)
    /\ S1' = State
    /\ pc' = "callbacks"
    /\ cbi' = 1
    /\ todo' = <<>>
    /\ log' = <<>>
    /\ outcome' = "running"
    /\ warned' = FALSE
    /\ UNCHANGED <<Browser, phase, order, params, callbacks, figure>>

\* The state handed to every callback of a trigger: the one computed after
\* the root update.
CallbackArgument_Fresh == State

CallbackArgument == S1

\* Mutation: the callbacks are taken last-registered first.
callback_begin_reversed ==
    /\ pc = "callbacks"
    /\ cbi <= Len(TriggerCallbacks)
    /\ LET cb == TriggerCallbacks[Len(TriggerCallbacks) + 1 - cbi]
       IN  /\ log' = Append(log, Event("call", cb, trig.name, CallbackArgument))
           /\ todo' = CallbackBody(cb, CallbackArgument)
    /\ pc' = "running"
    /\ UNCHANGED <<Browser, phase, order, params, callbacks, trig, S1, cbi, figure,
                   call, outcome, warned>>

\* The next callback, in the order of registration, is called with the state.
callback_begin ==
    /\ pc = "callbacks"
    /\ cbi <= Len(TriggerCallbacks)
    /\ LET cb == TriggerCallbacks[cbi]
       IN  /\ log' = Append(log, Event("call", cb, trig.name, CallbackArgument))
           /\ todo' = CallbackBody(cb, CallbackArgument)
    /\ pc' = "running"
    /\ UNCHANGED <<Browser, phase, order, params, callbacks, trig, S1, cbi, figure,
                   call, outcome, warned>>

CallEvents(n) ==
    [i \in 1..Len(CallbacksOf(n)) |-> Event("call", CallbacksOf(n)[i], n, <<>>)]

\* Mutation: an update made by a callback runs the callbacks of the updated
\* parameter.
callback_update_cascade ==
    /\ pc = "running"
    /\ todo # <<>>
    /\ Head(todo).kind = "update"
    /\ LET r == ViewerUpdate(params, "integer", Head(todo).name, Head(todo).args)
       IN  IF r.err = ""
           THEN /\ params' = r.params
                /\ warned' = (warned \/ r.warn)
                /\ log' = Append(log, Event("update", "", Head(todo).name, <<>>))
                              \o CallEvents(Head(todo).name)
                /\ todo' = Tail(todo)
                /\ UNCHANGED <<pc, outcome>>
           ELSE /\ pc' = "done"
                /\ outcome' = r.err
                /\ todo' = <<>>
                /\ UNCHANGED <<params, warned, log>>
    /\ UNCHANGED <<Browser, phase, order, callbacks, trig, S1, cbi, figure, call>>

\* Mutation: the state handed to the callbacks is a live view of the
\* parameters: an update shows in it.
callback_update_live ==
    /\ pc = "running"
    /\ todo # <<>>
    /\ Head(todo).kind = "update"
    /\ LET r == ViewerUpdate(params, "integer", Head(todo).name, Head(todo).args)
       IN  IF r.err = ""
           THEN /\ params' = r.params
                /\ warned' = (warned \/ r.warn)
                /\ S1' = Snapshot(r.params)
                /\ log' = Append([i \in DOMAIN log |->
                                    IF log[i].ev = "call"
                                    THEN [log[i] EXCEPT !.state = Snapshot(r.params)]
                                    ELSE log[i]],
                                 Event("update", "", Head(todo).name, <<>>))
                /\ todo' = Tail(todo)
                /\ UNCHANGED <<pc, outcome>>
           ELSE /\ pc' = "done"
                /\ outcome' = r.err
                /\ todo' = <<>>
                /\ UNCHANGED <<params, warned, log, S1>>
    /\ UNCHANGED <<Browser, phase, order, callbacks, trig, cbi, figure, call>>

\* The running callback calls update_integer; no callback is run for it.
callback_update ==
    /\ pc = "running"
    /\ todo # <<>>
    /\ Head(todo).kind = "update"
    /\ LET r == ViewerUpdate(params, "integer", Head(todo).name, Head(todo).args)
       IN  IF r.err = ""
           THEN /\ params' = r.params
                /\ warned' = (warned \/ r.warn)
                /\ log' = Append(log, Event("update", "", Head(todo).name, <<>>))
                /\ todo' = Tail(todo)
                /\ UNCHANGED <<pc, outcome>>
           ELSE /\ pc' = "done"
                /\ outcome' = r.err
                /\ todo' = <<>>
                /\ UNCHANGED <<params, warned, log>>
    /\ UNCHANGED <<Browser, phase, order, callbacks, trig, S1, cbi, figure, call>>

\* Mutation: the error of a callback ends the deployed state.
callback_raise_undeploy ==
    /\ pc = "running"
    /\ todo # <<>>
    /\ Head(todo).kind = "raise"
    /\ pc' = "done"
    /\ phase' = "Configuring"
    /\ outcome' = Head(todo).name
    /\ todo' = <<>>
    /\ UNCHANGED <<Browser, order, params, callbacks, trig, S1, cbi, log, figure,
                   call, warned>>

\* Mutation: the error of a callback is noted and the dispatch goes on with
\* the next callback.
callback_raise_skips ==
    /\ pc = "running"
    /\ todo # <<>>
    /\ Head(todo).kind = "raise"
    /\ pc' = "callbacks"
    /\ cbi' = cbi + 1
    /\ outcome' = Head(todo).name
    /\ todo' = <<>>
    /\ UNCHANGED <<Browser, phase, order, params, callbacks, trig, S1, log, figure,
                   call, warned>>

\* The running callback raises: the dispatch ends there.
callback_raise ==
    /\ pc = "running"
    /\ todo # <<>>
    /\ Head(todo).kind = "raise"
    /\ pc' = "done"
    /\ outcome' = Head(todo).name
    /\ todo' = <<>>
    /\ UNCHANGED <<Browser, phase, order, params, callbacks, trig, S1, cbi, log, figure,
                   call, warned>>

\* The callback that is running: the one called last.
RunningCallback ==
    LET c == SelectSeq(log, LAMBDA e : e.ev = "call") IN c[Len(c)].cb

\* Mutation: a callback that made an update is called once more for it.
callback_return_reruns ==
    /\ pc = "running"
    /\ todo = <<>>
    /\ log' = Append(log, Event("return", RunningCallback, trig.name, <<>>))
    /\ cbi' = IF /\ log[Len(log)].ev = "update"
                 /\ Len(SelectSeq(log, LAMBDA e : e.ev = "call")) <= Len(TriggerCallbacks)
              THEN cbi ELSE cbi + 1
    /\ pc' = "callbacks"
    /\ UNCHANGED <<Browser, phase, order, params, callbacks, trig, S1, todo, figure,
                   call, outcome, warned>>

\* The running callback has nothing left to do and returns.
callback_return ==
    /\ pc = "running"
    /\ todo = <<>>
    /\ log' = Append(log, Event("return", RunningCallback, trig.name, <<>>))
    /\ cbi' = cbi + 1
    /\ pc' = "callbacks"
    /\ UNCHANGED <<Browser, phase, order, params, callbacks, trig, S1, todo, figure,
                   call, outcome, warned>>

\* Mutation: the plot function is given the state the callbacks were given.
update_plot_stale ==
    /\ pc = "callbacks"
    /\ cbi > Len(TriggerCallbacks)
    /\ Replots
    /\ figure' = Plot(S1)
    /\ log' = Append(log, Event("plot", "", trig.name, S1))
    /\ pc' = "done"
    /\ outcome' = "ok"
    /\ UNCHANGED <<Browser, phase, order, params, callbacks, trig, S1, cbi, todo,
                   call, warned>>

\* After the last callback the plot function is called with the new state.
update_plot ==
    /\ pc = "callbacks"
    /\ cbi > Len(TriggerCallbacks)
    /\ Replots
    /\ figure' = Plot(State)
    /\ log' = Append(log, Event("plot", "", trig.name, State))
    /\ pc' = "done"
    /\ outcome' = "ok"
    /\ UNCHANGED <<Browser, phase, order, params, callbacks, trig, S1, cbi, todo,
                   call, warned>>

\* Mutation: a plot function that raises leaves no figure behind.
PlotResult_Clears(raised) ==
    /\ figure' = IF raised THEN None ELSE Plot(State)
    /\ outcome' = IF raised THEN "PlotError" ELSE "ok"

\* The figure the plot function returns becomes viewer.figure; if it raises,
\* viewer.figure stays what it was and the error is the outcome.
PlotResult(raised) ==
    /\ figure' = IF raised THEN figure ELSE Plot(State)
    /\ outcome' = IF raised THEN "PlotError" ELSE "ok"

\* After the last callback the plot function is called with the new state;
\* the plot function is user code and may raise.
update_plot_may_raise ==
    /\ pc = "callbacks"
    /\ cbi > Len(TriggerCallbacks)
    /\ Replots
    /\ \E raised \in BOOLEAN : PlotResult(raised)
    /\ log' = Append(log, Event("plot", "", trig.name, State))
    /\ pc' = "done"
    /\ UNCHANGED <<Browser, phase, order, params, callbacks, trig, S1, cbi, todo,
                   call, warned>>

\* Mutation: a dispatch that ends without a plot puts the values back to what
\* they were when it began.
finish_without_plot_rollback ==
    /\ pc = "callbacks"
    /\ cbi > Len(TriggerCallbacks)
    /\ ~Replots
    /\ pc' = "done"
    /\ outcome' = "ok"
    /\ params' = [n \in DOMAIN params |->
                    IF n \in DOMAIN S1
                    THEN [params[n] EXCEPT !.value = S1[n]]
                    ELSE params[n]]
    /\ UNCHANGED <<Browser, phase, order, callbacks, trig, S1, cbi, todo, log,
                   figure, call, warned>>

\* A button with replot=False: the dispatch ends without a plot.
finish_without_plot ==
    /\ pc = "callbacks"
    /\ cbi > Len(TriggerCallbacks)
    /\ ~Replots
    /\ pc' = "done"
    /\ outcome' = "ok"
    /\ UNCHANGED <<Browser, phase, order, params, callbacks, trig, S1, cbi, todo, log,
                   figure, call, warned>>

\* The handler of the trigger returns; the next trigger can be taken.
dispatch_return ==
    /\ pc = "done"
    /\ pc' = "idle"
    /\ trig' = NoTrigger
    /\ S1' = <<>>
    /\ cbi' = 0
    /\ log' = <<>>
    /\ UNCHANGED <<Browser, phase, order, params, callbacks, todo, figure, call, outcome, warned>>

Next ==
    \/ add_integer
    \/ add_button
    \/ on_change
    \/ update_integer
    \/ deploy
    \/ app_deployed_exit
    \/ set_parameter_value
    \/ button_click
    \/ callback_begin
    \/ callback_update
    \/ callback_raise
    \/ callback_return
    \/ update_plot
    \/ finish_without_plot
    \/ dispatch_return

Spec == Init /\ [][Next]_vars

----------------------------------------------------------------------------
(* The viewer behind the web page: its constructor has run, show() or share()
   deploys it, and the page posts value changes and button clicks.  The
   requests can name anything and the user's callbacks and plot function can
   raise. *)

DispatchCallbackIds == CallbackIds \cup {"update_mouse"}

\* The callback lists on_change can have built: no callback twice.
CallbackLists ==
    {cbs \in SeqsUpTo(DispatchCallbackIds, MaxCallbacks) :
        cbs # <<>> /\ Cardinality(Range(cbs)) = Len(cbs)}

\* The callback tables of a constructor that registered at most MaxCallbacks
\* callbacks on the parameters in names.
CallbackTables(names) ==
    {f \in UNION {[D -> CallbackLists] : D \in SUBSET names} :
        NumCallbacks(f) <= MaxCallbacks}

\* The viewer as __init__ leaves it: a prefix of the add calls was made, the
\* callbacks were registered, nothing is drawn yet.
InitDispatch ==
    /\ BrowserClosed
    /\ phase = "Configuring"
    /\ \E k \in 1..Len(AddOrder), rp \in BOOLEAN :
        /\ order = SubSeq(AddOrder, 1, k)
        /\ params = [n \in Range(SubSeq(AddOrder, 1, k)) |->
                        IF n \in ParamNames
                        THEN IntegerCreate(0, MaxEngineVal, 0).param
                        ELSE ButtonAction("update_max", rp)]
        /\ callbacks \in CallbackTables(ParamNames \cap Range(SubSeq(AddOrder, 1, k)))
    /\ pc = "idle"
    /\ trig = NoTrigger
    /\ S1 = <<>>
    /\ cbi = 0
    /\ todo = <<>>
    /\ log = <<>>
    /\ figure = None
    /\ call = NoCall
    /\ outcome = "ok"
    /\ warned = FALSE

NextDispatch ==
    \/ deploy
    \/ update_parameter
    \/ button_click
    \/ callback_begin
    \/ callback_update
    \/ callback_raise
    \/ callback_return
    \/ update_plot_may_raise
    \/ finish_without_plot
    \/ dispatch_return

SpecDispatch == InitDispatch /\ [][NextDispatch]_vars

\* A step of the dispatch under way. The handler of a request runs to its
\* end once it has begun: the callbacks and the plot function return or
\* raise, and nothing else is waited for.
HandlerStep ==
    \/ callback_begin
    \/ callback_update
    \/ callback_raise
    \/ callback_return
    \/ update_plot_may_raise
    \/ finish_without_plot

\* The viewer behind the web page with a handler that runs to its end.
SpecDispatchFair == InitDispatch /\ [][NextDispatch]_vars /\ WF_vars(HandlerStep)

----------------------------------------------------------------------------
(* The viewer whose user registers whatever callable comes to hand: integer
   parameters are added, callables are registered, the viewer is deployed and
   its components are moved. *)

NextRegister ==
    \/ add_integer
    \/ on_change_any_callable
    \/ deploy
    \/ set_parameter_value
    \/ callback_begin
    \/ callback_update
    \/ callback_raise
    \/ callback_return
    \/ update_plot
    \/ dispatch_return

SpecRegister == Init /\ [][NextRegister]_vars

----------------------------------------------------------------------------
(* The range control of the page (static/js/viewer.js): two sliders and two
   number inputs over state[name] = [low, high] of one integer range
   parameter "r".  Values are whole numbers; what is typed into a number
   input is a number of any size or nothing that parses (NaN). *)

\* The largest value of the parameter behind the control.
MaxSlider == 2

SliderVals == 0..MaxSlider

\* What converter(text) makes of the text of a number input.
Parsed == {[nan |-> FALSE, n |-> v] : v \in (0 - 1)..(MaxSlider + 1)}
              \cup {[nan |-> TRUE, n |-> 0]}

\* createControls, after /init-data: state[name] = param.value, and every
\* widget shows its end of the value.
\* What the user did: the widget and the value it was given.
ControlEvent(w, v) == [on |-> w, value |-> v]

InitControls ==
    /\ phase = "Live"
    /\ order = <<"r">>
    /\ callbacks = <<>>
    /\ pc = "idle"
    /\ trig = NoTrigger
    /\ S1 = <<>>
    /\ cbi = 0
    /\ todo = <<>>
    /\ log = <<>>
    /\ figure = None
    /\ call = NoCall
    /\ outcome = "ok"
    /\ warned = FALSE
    /\ page = None
    /\ \E mn, mx \in SliderVals, v \in SliderVals \X SliderVals :
        LET param == IntegerRangeCreate(mn, mx, v).param
        IN  /\ params = ("r" :> param)
            /\ controls = [state |-> param.value,
                           minSlider |-> param.value[1],
                           maxSlider |-> param.value[2],
                           minInput |-> param.value[1],
                           maxInput |-> param.value[2],
                           display |-> param.value,
                           src |-> param.value,
                           event |-> ControlEvent("createControls", None),
                           plotted |-> TRUE]

\* The parameter as /init-data gave it.
paramInfo == params["r"]

\* state[name] = [minVal, maxVal]; updateRangeDisplay(); updatePlot(): the
\* image is asked for with the state in the query string.
Accepted(c, minVal, maxVal, e) ==
    [c EXCEPT !.state = <<minVal, maxVal>>,
              !.display = <<minVal, maxVal>>,
              !.src = <<minVal, maxVal>>,
              !.event = e,
              !.plotted = TRUE]

\* The else branch of a handler: the widget is put back, nothing else is done.
Refused(c, e) == [c EXCEPT !.event = e, !.plotted = FALSE]

ControlsFrame ==
    UNCHANGED <<phase, order, params, callbacks, pc, trig, S1, cbi, todo, log,
                figure, call, outcome, warned, page>>

\* Mutation: the min slider stores what it is moved to without a look at the
\* max slider.
minSlider_input_unchecked ==
    /\ \E x \in paramInfo.min..paramInfo.max :
        /\ x # controls.minSlider
        /\ controls' = [Accepted(controls, x, controls.maxSlider, ControlEvent("minSlider", x))
                            EXCEPT !.minSlider = x, !.minInput = x]
    /\ ControlsFrame

\* minSlider 'input': the slider was moved to x, a value of its range.
minSlider_input ==
    /\ \E x \in paramInfo.min..paramInfo.max :
        /\ x # controls.minSlider
        /\ LET minVal == x
               maxVal == controls.maxSlider
           IN  controls' =
                 IF minVal <= maxVal
                 THEN [Accepted(controls, minVal, maxVal, ControlEvent("minSlider", x))
                          EXCEPT !.minSlider = x, !.minInput = minVal]
                 ELSE [Refused(controls, ControlEvent("minSlider", x)) EXCEPT !.minSlider = maxVal]
    /\ ControlsFrame

\* maxSlider 'input'.
maxSlider_input ==
    /\ \E x \in paramInfo.min..paramInfo.max :
        /\ x # controls.maxSlider
        /\ LET minVal == controls.minSlider
               maxVal == x
           IN  controls' =
                 IF maxVal >= minVal
                 THEN [Accepted(controls, minVal, maxVal, ControlEvent("maxSlider", x))
                          EXCEPT !.maxSlider = x, !.maxInput = maxVal]
                 ELSE [Refused(controls, ControlEvent("maxSlider", x)) EXCEPT !.maxSlider = minVal]
    /\ ControlsFrame

\* Setting the value of a slider from script: the slider keeps it within its
\* range.
SliderValue(v) == AdjustValueToBounds(v, paramInfo.min, paramInfo.max)

\* minInput 'change': a text was typed and committed.
minInput_change ==
    /\ \E t \in Parsed :
        LET minVal == t
            maxVal == controls.maxInput
        IN  controls' =
              IF ~minVal.nan /\ minVal.n >= paramInfo.min /\ minVal.n <= maxVal
              THEN [Accepted(controls, minVal.n, maxVal, ControlEvent("minInput", t))
                       EXCEPT !.minInput = minVal.n,
                              !.minSlider = SliderValue(minVal.n)]
              ELSE [Refused(controls, ControlEvent("minInput", t)) EXCEPT !.minInput = controls.state[1]]
    /\ ControlsFrame

\* maxInput 'change'.
maxInput_change ==
    /\ \E t \in Parsed :
        LET minVal == controls.minInput
            maxVal == t
        IN  controls' =
              IF ~maxVal.nan /\ maxVal.n <= paramInfo.max /\ maxVal.n >= minVal
              THEN [Accepted(controls, minVal, maxVal.n, ControlEvent("maxInput", t))
                       EXCEPT !.maxInput = maxVal.n,
                              !.maxSlider = SliderValue(maxVal.n)]
              ELSE [Refused(controls, ControlEvent("maxInput", t)) EXCEPT !.maxInput = controls.state[2]]
    /\ ControlsFrame

NextControls ==
    \/ minSlider_input
    \/ maxSlider_input
    \/ minInput_change
    \/ maxInput_change

SpecControls == InitControls /\ [][NextControls]_vars

----------------------------------------------------------------------------
(* The page of the web deployment (flask_deployment/templates/viewer.html):
   updateParameter posts a value and shows the plot of the response when the
   response arrives.  fetch() gives no order among requests that are on their
   way at the same time: the server takes them up, and the page receives the
   responses, in any order. *)

\* The number of updates the page sends.
MaxRequests == 3

Request(i, n, pl) == [id |-> i, name |-> n, payload |-> pl]

Response(i, e, f) == [id |-> i, error |-> e, plot |-> f]

\* The page as the server rendered it: the components of the parameters and
\* the initial plot.
InitPage ==
    /\ phase = "Live"
    /\ order = <<"a">>
    /\ params = ("a" :> IntegerCreate(0, MaxEngineVal, 0).param)
    /\ callbacks = <<>>
    /\ pc = "idle"
    /\ trig = NoTrigger
    /\ S1 = <<>>
    /\ cbi = 0
    /\ todo = <<>>
    /\ log = <<>>
    /\ figure = Plot(Snapshot(params))
    /\ call = NoCall
    /\ outcome = "ok"
    /\ warned = FALSE
    /\ controls = None
    /\ page = [sent |-> 0, requests |-> {}, responses |-> {}, returned |-> <<>>,
               plot |-> figure, shown |-> 0]

\* updateParameter(name, value): the request is posted; nothing is waited for.
updateParameter ==
    /\ page.sent < MaxRequests
    /\ \E name \in WidgetNames, pl \in WidgetPayloads :
        page' = [page EXCEPT
                    !.sent = @ + 1,
                    !.requests = @ \cup {Request(page.sent + 1, name, pl)}]
    /\ UNCHANGED <<phase, order, params, callbacks, pc, trig, S1, cbi, todo, log,
                   figure, call, outcome, warned, controls>>

\* POST /update_parameter on the server: one of the requests on their way is
\* taken up, the value is set, the plot is made and sent back (returned keeps
\* the plot each request was answered with).
update_parameter_route ==
    /\ pc = "idle"
    /\ \E q \in page.requests :
        LET r == RootUpdate(params, q.name, q.payload)
        IN  /\ params' = r.params
            /\ warned' = r.warn
            /\ outcome' = IF r.err = "" THEN "ok" ELSE r.err
            /\ figure' = IF r.err = "" THEN Plot(Snapshot(r.params)) ELSE figure
            /\ call' = Call("set_parameter_value", q.name, <<q.payload.raw>>)
            /\ page' = [page EXCEPT
                          !.requests = @ \ {q},
                          !.responses = @ \cup {Response(q.id, r.err # "", figure')},
                          !.returned = [i \in DOMAIN page.returned \cup {q.id} |->
                                          IF i = q.id THEN figure'
                                          ELSE page.returned[i]]]
    /\ UNCHANGED <<phase, order, callbacks, pc, trig, S1, cbi, todo, log, controls>>

\* .then(data => ...): a response arrives; unless it reports an error its plot
\* becomes the image on display.
response_then ==
    /\ \E d \in page.responses :
        page' = IF d.error
                THEN [page EXCEPT !.responses = @ \ {d}]
                ELSE [page EXCEPT !.responses = @ \ {d},
                                  !.plot = d.plot,
                                  !.shown = d.id]
    /\ UNCHANGED <<phase, order, params, callbacks, pc, trig, S1, cbi, todo, log,
                   figure, call, outcome, warned, controls>>

NextPage ==
    \/ updateParameter
    \/ update_parameter_route
    \/ response_then

SpecPage == InitPage /\ [][NextPage]_vars

----------------------------------------------------------------------------
(* Claims *)

\* C1: every bounded Integer and Float parameter satisfies min <= value <= max
\* after creation and after any sequence of updates of value, min and max.
C1_BoundedValueInBounds ==
    \A n \in DOMAIN params :
        params[n].type \in {"integer", "float"} =>
            /\ params[n].min <= params[n].value
            /\ params[n].value <= params[n].max

\* An update moved min above the old value and the value followed it.
C1_Witness ==
    /\ call.op = "update_integer"
    /\ Has(call.args, "min") /\ ~Has(call.args, "value")
    /\ warned
    /\ params["p"].value = call.args["min"]
    /\ params["p"].value = params["p"].min

\* C2: every Selection parameter has non-empty options and a value that is one
\* of them, after creation and after any sequence of successful updates.
C2_SelectionValueInOptions ==
    \A n \in DOMAIN params :
        params[n].type = "selection" =>
            /\ params[n].options # <<>>
            /\ params[n].value \in Range(params[n].options)

\* An update replaced the options and the value migrated to the first of them.
C2_Witness ==
    /\ call.op = "update_selection"
    /\ Has(call.args, "options") /\ ~Has(call.args, "value")
    /\ outcome = "ok" /\ warned
    /\ params["p"].options = call.args["options"]
    /\ params["p"].value = params["p"].options[1]

CallIdx == {i \in DOMAIN log : log[i].ev = "call"}

Calls == SelectSeq(log, LAMBDA e : e.ev = "call")

Plots == SelectSeq(log, LAMBDA e : e.ev = "plot")

Returns == SelectSeq(log, LAMBDA e : e.ev = "return")

UpdatedNames == {log[i].for : i \in {j \in DOMAIN log : log[j].ev = "update"}}

\* C3: in the dispatch of a trigger only the callbacks of the triggering
\* parameter are called; an update made by a callback calls no callback of the
\* updated parameter.
C3_NoCascade ==
    /\ \A i \in CallIdx : log[i].for = trig.name
    /\ Len(Calls) <= Len(TriggerCallbacks)

\* A finished dispatch in which a callback updated a parameter that has
\* callbacks of its own, another parameter or the triggering one.
C3_Witness ==
    /\ pc = "done" /\ outcome = "ok" /\ trig.kind = "change"
    /\ \E n \in UpdatedNames : n # trig.name /\ CallbacksOf(n) # <<>>
    /\ Len(Calls) = Len(CallbacksOf(trig.name))

\* C4: the callbacks of the triggering parameter are called in the order of
\* their registration, each after the one before it has returned.
C4_RegistrationOrder ==
    /\ \A k \in DOMAIN Calls : k <= Len(TriggerCallbacks) => Calls[k].cb = TriggerCallbacks[k]
    /\ \A i, j \in CallIdx :
          i < j => \E r \in (i + 1)..(j - 1) :
                      log[r].ev = "return" /\ log[r].cb = log[i].cb

\* A finished dispatch that called two different callbacks.
C4_Witness ==
    /\ pc = "done" /\ outcome = "ok" /\ trig.kind = "change"
    /\ Len(Calls) = 2
    /\ Calls[1].cb # Calls[2].cb

\* C5: every callback of a trigger is handed the state computed after the
\* root update, whatever an earlier callback of the trigger has changed.
C5_SameSnapshot ==
    \A i \in CallIdx : log[i].state = S1

\* A second callback was called after the first had changed a value.
C5_Witness ==
    /\ pc = "running"
    /\ Len(Calls) = 2
    /\ S1 # State

AddOps == {"add_integer", "add_button"}

\* C7: while deployed, an add call fails with RuntimeError and leaves the
\* registry as it was; an update of a registered parameter succeeds.
C7_LiveAddFails ==
    [][/\ (pc = "idle" /\ phase = "Live" /\ call'.op \in AddOps) =>
            (outcome' = "RuntimeError" /\ order' = order /\ params' = params)
       /\ (/\ pc = "idle" /\ phase = "Live" /\ call'.op = "update_integer"
           /\ call'.name \in Registered) =>
            IF params[call'.name].type = "integer" THEN outcome' = "ok" ELSE TRUE]_vars

\* An add call was refused while deployed.
C7_Witness ==
    /\ phase = "Live"
    /\ call.op \in AddOps
    /\ outcome = "RuntimeError"
    /\ call.name \notin Registered

IsIntegerParam(n) == n \in Registered /\ params[n].type = "integer"

C9_PlotOnceWithFinalState ==
    (pc = "done" /\ trig.kind = "change" /\ outcome = "ok") =>
        /\ Len(Plots) = 1
        /\ log[Len(log)].ev = "plot"
        /\ log[Len(log)].state = State
        /\ figure = Plot(State)
        /\ Len(Calls) = Len(CallbacksOf(trig.name))
        /\ Len(Returns) = Len(Calls)

\* A value change whose callbacks changed a value ended with the plot.
C9_Witness ==
    /\ pc = "done" /\ trig.kind = "change" /\ outcome = "ok"
    /\ Len(Calls) > 0
    /\ S1 # State
    /\ figure = Plot(State)

IsButtonDispatch(rp) ==
    IF trig.kind = "button" THEN params[trig.name].replot = rp ELSE FALSE

\* C10: a click on a button with replot=False calls the button's callback and
\* never the plot function, the figure staying what it was; a click on a
\* button with replot=True ends with a plot that replaces the figure.
C10_ButtonReplot ==
    /\ [](IsButtonDispatch(FALSE) => Len(Plots) = 0)
    /\ []((pc = "done" /\ outcome = "ok" /\ trig.kind = "button") =>
            /\ Len(Calls) = 1
            /\ Calls[1].cb = params[trig.name].callback)
    /\ []((pc = "done" /\ outcome = "ok" /\ IsButtonDispatch(TRUE)) =>
            /\ log[Len(log)].ev = "plot"
            /\ figure = Plot(State))
    /\ [][IsButtonDispatch(FALSE) => figure' = figure]_vars

\* A click on a button with replot=False changed a value and left the figure.
C10_Witness ==
    /\ pc = "done" /\ outcome = "ok"
    /\ IsButtonDispatch(FALSE)
    /\ S1 # State
    /\ figure # Plot(State)

IsRange(q) == q.type \in {"integer_range", "float_range"}

\* The root update of the value change being dispatched failed validation: it
\* named no registered parameter or carried a value of the wrong kind.
RootFailed ==
    trig.kind = "change" /\ (trig.name \notin Registered \/ ~trig.typed)

\* C11: when the root update of a value change fails validation, the dispatch
\* ends with that error: no callback is called and nothing is rendered.
C11_RootFailureEndsDispatch ==
    RootFailed =>
        /\ pc = "done"
        /\ outcome = "ParameterUpdateError"
        /\ Calls = <<>>
        /\ Plots = <<>>

\* A value of the wrong kind was posted for a parameter that has callbacks.
C11_Witness ==
    /\ pc = "done"
    /\ trig.kind = "change"
    /\ trig.name \in Registered
    /\ ~trig.typed
    /\ CallbacksOf(trig.name) # <<>>
    /\ outcome = "ParameterUpdateError"

\* The dispatch under way has met an error in a callback.
CallbackFailed ==
    /\ trig.kind # "none"
    /\ outcome \notin {"ok", "running", "PlotError"}
    /\ Calls # <<>>

RenderSucceeded ==
    \/ phase = "Configuring" /\ phase' = "Live"
    \/ /\ Len(log') = Len(log) + 1
       /\ log'[Len(log')].ev = "plot"
       /\ outcome' = "ok"

\* C13: viewer.figure is None until the first successful render and from then
\* on is the figure of the latest successful render; a dispatch that ends in
\* an error or renders nothing leaves it as it was.
C13_FigureIsLastRender ==
    /\ [](phase = "Configuring" => figure = None)
    /\ [][IF RenderSucceeded
          THEN figure' = Plot(State') /\ State' = State
          ELSE figure' = figure]_vars

\* The plot function raised for a state other than the one on display.
C13_Witness ==
    /\ pc = "done"
    /\ outcome = "PlotError"
    /\ Plots # <<>>
    /\ figure # None
    /\ figure # Plot(State)

\* C14: every integer range and float range parameter satisfies
\* min <= low <= high <= max after creation and after any sequence of updates
\* of value, min and max.
C14_RangeWithinBounds ==
    \A n \in DOMAIN params :
        IsRange(params[n]) =>
            /\ params[n].min <= params[n].value[1]
            /\ params[n].value[1] <= params[n].value[2]
            /\ params[n].value[2] <= params[n].max

\* An update raised min above the low end of a range and the low end followed.
C14_Witness ==
    /\ call.op = "update_integer_range"
    /\ DOMAIN call.args = {"min"}
    /\ outcome = "ok" /\ warned
    /\ params["p"].min = call.args["min"]
    /\ params["p"].value[1] = params["p"].min
    /\ params["p"].min <= params["p"].max

BoundedOps ==
    {"update_integer", "update_float", "update_integer_range", "update_float_range"}

\* C15: an update that would leave a bounded numeric or range parameter with
\* min > max does not raise; the two bounds are stored swapped and a warning
\* is emitted.
C15_InvertedBoundsSwapped ==
    [][LET q == params["p"]
           mn == Field(call'.args, "min", q.min)
           mx == Field(call'.args, "max", q.max)
       IN  (call'.op \in BoundedOps /\ mn > mx) =>
               /\ outcome' = "ok"
               /\ params'["p"].min = mx
               /\ params'["p"].max = mn
               /\ warned']_vars

\* An update gave a range parameter a min above its max and the given min
\* was stored as the max.
C15_Witness ==
    /\ call.op = "update_float_range"
    /\ DOMAIN call.args = {"min"}
    /\ outcome = "ok" /\ warned
    /\ params["p"].max = call.args["min"]
    /\ params["p"].min < params["p"].max

\* C16: the value of every multiple selection parameter is a sequence without
\* duplicates whose elements are all among its current options, after
\* creation and after any sequence of updates.
C16_MultipleSelectionValid ==
    \A n \in DOMAIN params :
        params[n].type = "multiple_selection" =>
            /\ NoDup(params[n].value)
            /\ Range(params[n].value) \subseteq Range(params[n].options)

\* An update replaced the options and part of the selection was dropped.
C16_Witness ==
    /\ call.op = "update_multiple_selection"
    /\ DOMAIN call.args = {"options"}
    /\ outcome = "ok" /\ warned
    /\ params["p"].options = call.args["options"]
    /\ params["p"].value # <<>>

\* C17: update_selection with new options and no value keeps a current value
\* that is among the new options, and otherwise stores the first new option
\* and emits a warning; neither case raises.
C17_OptionsOnlyUpdate ==
    [][LET q == params["p"]
           u == call'.args
       IN  (/\ call'.op = "update_selection"
            /\ DOMAIN u = {"options"}
            /\ u["options"] # <<>>) =>
               /\ outcome' = "ok"
               /\ params'["p"].options = u["options"]
               /\ IF q.value \in Range(u["options"])
                  THEN params'["p"].value = q.value /\ ~warned'
                  ELSE params'["p"].value = u["options"][1] /\ warned']_vars

\* New options were stored and the value, which is not the first of them,
\* was kept.
C17_Witness ==
    /\ call.op = "update_selection"
    /\ DOMAIN call.args = {"options"}
    /\ outcome = "ok" /\ ~warned
    /\ params["p"].options = call.args["options"]
    /\ params["p"].value # params["p"].options[1]

\* C18: update_selection with an explicit value that is not among the options
\* in force after the update (those given in the call, else the current ones)
\* raises ParameterUpdateError.
C18_ExplicitValueOutsideOptions ==
    [][LET q == params["p"]
           u == call'.args
       IN  (/\ call'.op = "update_selection"
            /\ Has(u, "value")
            /\ u["value"] \notin Range(Field(u, "options", q.options))) =>
               outcome' = "ParameterUpdateError"]_vars

\* An update gave new options together with a value that is not one of them.
C18_Witness ==
    /\ call.op = "update_selection"
    /\ DOMAIN call.args = {"value", "options"}
    /\ call.args["options"] # <<>>
    /\ call.args["value"] \notin Range(call.args["options"])
    /\ outcome = "ParameterUpdateError"

\* An update that gives min and/or max and nothing else, the bounds it leaves
\* being min <= max.
BoundsOnlyUpdate(q, u) ==
    /\ DOMAIN u \subseteq {"min", "max"}
    /\ DOMAIN u # {}
    /\ Field(u, "min", q.min) <= Field(u, "max", q.max)

\* What C19 states of a value v under new bounds lo <= hi.
ClampedWithWarning(v, lo, hi) ==
    IF lo <= v /\ v <= hi
    THEN params'["p"].value = v /\ ~warned'
    ELSE /\ params'["p"].value = (IF v < lo THEN lo ELSE hi)
         /\ warned'

ProposedRange ==
    CASE call.op = "add_integer_range" -> call.args[3]
      [] call.op = "add_float_range" -> call.args[3]
      [] call.op \in {"update_integer_range", "update_float_range"} ->
            Field(call.args, "value", <<>>)
      [] OTHER -> <<>>

\* C20: a range proposed with low > high, at creation or in an update, is
\* accepted and stored with low <= high: an integer range whose two ends lie
\* within the bounds is stored with the two ends exchanged.
C20_InvertedRangeSwapped ==
    LET v == ProposedRange
        q == params["p"]
    IN  (v # <<>> /\ v[1] > v[2]) =>
            /\ outcome = "ok"
            /\ q.value[1] <= q.value[2]
            /\ (/\ q.type = "integer_range"
                /\ q.min <= v[2] /\ v[1] <= q.max) => q.value = <<v[2], v[1]>>

\* An update proposed an inverted range and its two ends were exchanged.
C20_Witness ==
    /\ call.op = "update_integer_range"
    /\ Has(call.args, "value")
    /\ call.args["value"][1] > call.args["value"][2]
    /\ outcome = "ok"
    /\ params["p"].value = <<call.args["value"][2], call.args["value"][1]>>
    /\ params["p"].value[1] < params["p"].value[2]

UpdateOps ==
    {"update_integer", "update_float", "update_selection",
     "update_integer_range", "update_float_range", "update_multiple_selection"}

\* The fields of a parameter that an update can set.
Fields(q) == DOMAIN q \ {"type"}

\* Updating p with u stored q: is every field of q what the caller supplied
\* or, for a field left out, what was in place?
StoredAsRequested(p, u, q) ==
    \A f \in Fields(q) : q[f] = Field(u, f, p[f])

\* A requested value on the grid of the stored parameter: the multiples of
\* step counted from min, for the float variants.
OnGrid(q, v) ==
    CASE q.type = "float" -> RoundToStep(v, q.min, q.step)
      [] q.type = "float_range" ->
            <<RoundToStep(v[1], q.min, q.step), RoundToStep(v[2], q.min, q.step)>>
      [] OTHER -> v

\* As StoredAsRequested, the requested value being taken on the grid.
StoredAsRounded(p, u, q) ==
    /\ \A f \in Fields(q) \ {"value"} : q[f] = Field(u, f, p[f])
    /\ q.value = OnGrid(q, Field(u, "value", p.value))

RestatesCurrent(p, u) ==
    /\ DOMAIN u = Fields(p)
    /\ \A f \in Fields(p) : u[f] = p[f]

ValidValue(q, v) ==
    CASE q.type \in {"integer", "float"} ->
            q.min <= v /\ v <= q.max /\ OnGrid(q, v) = v
      [] q.type = "selection" -> v \in Range(q.options)

\* A supplied zero is a value like any other: it is stored where the bounds
\* admit it.
ZeroApplied(u, q) ==
    /\ ("value" \in DOMAIN u /\ u["value"] = 0 /\ q.type \in {"integer", "float"}
            /\ q.min <= 0) => q.value = 0
    /\ ("min" \in DOMAIN u /\ u["min"] = 0) => q.min = 0

DuplicateAdd == pc = "idle" /\ call'.op \in AddOps /\ call'.name \in Registered

CallbackUpdatesMissing ==
    /\ pc = "running"
    /\ todo # <<>>
    /\ Head(todo).kind = "update"
    /\ Head(todo).name \notin Registered

C26_OnChangeValidates ==
    /\ [](\A n \in DOMAIN callbacks :
            /\ n \in Registered
            /\ \A i \in DOMAIN callbacks[n] : Arity(callbacks[n][i]) = 1)
    /\ [](\A i \in CallIdx : Arity(log[i].cb) = 1)
    /\ [][(pc = "idle" /\ call'.op = "on_change") =>
            \/ outcome' = "ValueError" /\ callbacks' = callbacks
            \/ /\ outcome' = "ok"
               /\ call'.name \in Registered
               /\ \E cb \in CallbackIds :
                     callbacks' = (call'.name :> Append(CallbacksOf(call'.name), cb))
                                      @@ callbacks]_vars
    /\ [][(pc = "idle" /\ call'.op = "on_change" /\ call'.name \notin Registered) =>
            outcome' = "ValueError"]_vars

\* on_change refused a callable for a parameter that exists and has already a
\* callback: the callable had the wrong signature.
C26_Witness ==
    /\ pc = "idle"
    /\ call.op = "on_change"
    /\ call.name \in Registered
    /\ outcome = "ValueError"
    /\ CallbacksOf(call.name) # <<>>

\* The step takes up a trigger: the dispatch is at its first position with an
\* empty log.
DispatchBegins ==
    pc' \in {"callbacks", "done"} /\ cbi' = 1 /\ log' = <<>> /\ trig'.kind # "none"

\* The dispatch that ends did all its work: unless it met an error, every
\* callback of the trigger returned and the plot function was called if due.
DispatchComplete ==
    /\ pc = "done"
    /\ outcome = "ok" =>
          /\ Len(Returns) = Len(TriggerCallbacks)
          /\ Len(Plots) = (IF Replots THEN 1 ELSE 0)

Abs(x) == IF x < 0 THEN 0 - x ELSE x

\* x is a multiple of step counted from lo, and no other one is nearer to v.
NearestOnGrid(x, v, lo, st) ==
    (x - lo) % st = 0 /\ 2 * Abs(v - x) <= st

\* The points a request can be rounded to.
GridPoints == (0 - MaxFloatStep)..(MaxVal + MaxFloatStep)

RoundedThenClamped(q, r) ==
    \E x \in GridPoints :
        /\ NearestOnGrid(x, r, q.min, q.step)
        /\ q.value = AdjustValueToBounds(x, q.min, q.max)

RunningArgument == Calls[Len(Calls)].state

\* C29: the state handed to a callback is a copy taken at one moment: an
\* update made by the callback, whether it sets a value or moves one by
\* clamping, shows in viewer.state and not in the state the callback was
\* handed.
C29_ArgumentIsACopy ==
    [][(pc = "running" /\ pc' = "running" /\ params' # params) =>
          /\ Calls' = Calls
          /\ S1' = S1
          /\ \A n \in DOMAIN State' : State'[n] = params'[n].value]_vars

\* The running callback has moved a value by an update: viewer.state shows the
\* new value, the state it was handed the old one.
C29_Witness ==
    /\ pc = "running"
    /\ log[Len(log)].ev = "update"
    /\ LET n == log[Len(log)].for
       IN  /\ n \in DOMAIN RunningArgument
           /\ RunningArgument[n] # State[n]
           /\ State[n] = params[n].value

\* The value a trigger sends lies outside the bounds of the parameter it names.
RawOutOfBounds(ps, t) ==
    /\ t.kind = "change"
    /\ t.typed
    /\ t.name \in DOMAIN ps
    /\ ps[t.name].type = "integer"
    /\ (t.raw < ps[t.name].min \/ t.raw > ps[t.name].max)

\* The dispatch of a value change whose value was adjusted is under way or done.
AdjustedDispatch ==
    /\ pc # "idle"
    /\ trig.kind = "change"
    /\ trig.name \in DOMAIN S1
    /\ S1[trig.name] # trig.raw

\* C30: a value change that sends a value outside the bounds is not refused:
\* before any callback runs the value is clamped to the nearer bound and a
\* warning recorded, and the dispatch goes on; the callbacks are handed the
\* clamped value and the plot function is never shown the value sent.
C30_ClampedBeforeCallbacks ==
    /\ [][(pc = "idle" /\ pc' # "idle" /\ RawOutOfBounds(params, trig')) =>
            LET n == trig'.name
            IN  /\ pc' = "callbacks"
                /\ outcome' = "running"
                /\ warned'
                /\ log' = <<>>
                /\ params'[n].min = params[n].min
                /\ params'[n].max = params[n].max
                /\ params'[n].value =
                      AdjustValueToBounds(trig'.raw, params[n].min, params[n].max)
                /\ S1'[n] = params'[n].value
                /\ S1'[n] # trig'.raw]_vars
    /\ [](AdjustedDispatch =>
            /\ \A i \in DOMAIN Calls : Calls[i].state[trig.name] = S1[trig.name]
            /\ \A i \in DOMAIN Plots : Plots[i].state[trig.name] # trig.raw)

\* A dispatch has ended well for a value sent above the maximum: it was
\* warned about, and the callback and the plot function saw the maximum.
C30_Witness ==
    /\ pc = "done"
    /\ outcome = "ok"
    /\ warned
    /\ RawOutOfBounds(params, trig)
    /\ AdjustedDispatch
    /\ Len(Calls) >= 1
    /\ Len(Plots) = 1
    /\ Calls[1].state[trig.name] = params[trig.name].max
    /\ Plots[1].state[trig.name] = params[trig.name].max

\* C31: what the callback of a button with replot=False changed stays
\* changed: the end of the dispatch and the return of the handler leave the
\* parameters as the callback left them, so that viewer.state shows the
\* changes, and every later plot is made with the values the parameters have
\* when it is made.
C31_ButtonChangesPersist ==
    /\ [][(IsButtonDispatch(FALSE) /\ pc \in {"callbacks", "done"}) =>
            /\ params' = params
            /\ Snapshot(params') = State]_vars
    /\ [][(pc = "callbacks" /\ Len(Plots') = Len(Plots) + 1) =>
            /\ figure' = Plot(Snapshot(params))
            /\ Plots'[Len(Plots')].state = Snapshot(params)]_vars
    /\ [][(pc = "done" /\ pc' = "idle") => params' = params]_vars

\* The handler of a click on a button with replot=False is about to return:
\* its callback lowered a value, viewer.state shows the lowered value and the
\* figure on display the earlier one.
C31_Witness ==
    /\ pc = "done" /\ outcome = "ok"
    /\ IsButtonDispatch(FALSE)
    /\ Len(Plots) = 0
    /\ \E n \in UpdatedNames :
         /\ n \in DOMAIN State
         /\ State[n] = params[n].value
         /\ State[n] < S1[n]
         /\ figure # None
         /\ figure.state[n] = S1[n]

ConstraintsWithValue(u) ==
    Has(u, "value") /\ (Has(u, "min") \/ Has(u, "max") \/ Has(u, "options"))

\* The constraints in force once u is applied to p (inverted bounds put in
\* order), around the value in place.
NewConstraints(p, u) ==
    IF p.type = "selection"
    THEN [p EXCEPT !.options = Field(u, "options", p.options)]
    ELSE LET mn == Field(u, "min", p.min)
             mx == Field(u, "max", p.max)
             q  == [p EXCEPT !.min = Min2(mn, mx), !.max = Max2(mn, mx)]
         IN  IF p.type = "float"
             THEN [q EXCEPT !.step = Field(u, "step", p.step)]
             ELSE q

\* The supplied value is valid under the new constraints and not under those
\* in place.
ValidUnderNewOnly(p, u) ==
    /\ ConstraintsWithValue(u)
    /\ NewConstraints(p, u).type = "selection" => NewConstraints(p, u).options # <<>>
    /\ ValidValue(NewConstraints(p, u), u["value"])
    /\ ~ValidValue(p, u["value"])

\* The bounds the update leaves in force are given with min > max.
BoundsInverted(p, u) ==
    /\ p.type \in {"integer", "float"}
    /\ Field(u, "min", p.min) > Field(u, "max", p.max)

Called == [i \in DOMAIN Calls |-> Calls[i].cb]

\* C34: every dispatch comes to its end, and one that ends well has called
\* each callback of the trigger exactly once, in order, also when the
\* callbacks of two parameters update each other's parameter.
C34_DispatchTerminates ==
    /\ (pc # "idle") ~> (pc = "done")
    /\ [](pc # "idle" =>
            /\ Len(Called) <= Len(TriggerCallbacks)
            /\ \A i \in DOMAIN Called : Called[i] = TriggerCallbacks[i])
    /\ []((pc = "done" /\ outcome \in {"ok", "PlotError"}) => Called = TriggerCallbacks)

\* A change of a is dispatched to its end where a callback of a updates b and
\* a callback of b updates a: the callback of a ran once, that of b not at all.
C34_Witness ==
    /\ pc = "done" /\ outcome = "ok"
    /\ trig.kind = "change" /\ trig.name = "a" /\ trig.typed
    /\ CallbacksOf("a") = <<"update_max">>
    /\ "update_value" \in Range(CallbacksOf("b"))
    /\ "b" \in UpdatedNames
    /\ Called = <<"update_max">>
    /\ Len(Plots) = 1

\* The type of every registered parameter, by name.
Types(ps) == [n \in DOMAIN ps |-> ps[n].type]

\* C36: while the viewer is deployed the registered names, their order and
\* the type of each parameter stay what they are, whatever is called; an
\* update_integer of a parameter that is not an integer fails and changes
\* nothing.
C36_LiveRegistryIsFixed ==
    /\ [][phase = "Live" =>
            /\ order' = order
            /\ DOMAIN params' = DOMAIN params
            /\ Types(params') = Types(params)]_vars
    /\ [][(/\ pc = "idle" /\ call'.op = "update_integer"
           /\ call'.name \in Registered
           /\ params[call'.name].type # "integer") =>
            (outcome' \notin {"ok", "running"} /\ params' = params)]_vars

\* The deployed viewer refused update_integer for its button; the button and
\* the integers are in the registry as before.
C36_Witness ==
    /\ phase = "Live"
    /\ pc = "idle"
    /\ call.op = "update_integer"
    /\ call.name \in Registered
    /\ params[call.name].type = "button"
    /\ outcome = "ParameterUpdateError"
    /\ \E n \in Registered : params[n].type = "integer"

\* The pair [minVal, maxVal] the handler of the event computes would have
\* low > high, or an end that is no number.
WouldInvert(c, e) ==
    CASE e.on = "minSlider" -> e.value > c.maxSlider
      [] e.on = "maxSlider" -> e.value < c.minSlider
      [] e.on = "minInput"  -> e.value.nan \/ e.value.n > c.maxInput
      [] e.on = "maxInput"  -> e.value.nan \/ e.value.n < c.minInput
      [] OTHER -> FALSE

\* C37: the state of a range control is always [low, high] with low <= high,
\* whatever the sliders and the number inputs are given; an event that would
\* make low > high leaves the state as it was and asks for no plot.
C37_RangeStateOrdered ==
    /\ [](controls.state[1] <= controls.state[2])
    /\ [][WouldInvert(controls, controls'.event) =>
            /\ controls'.state = controls.state
            /\ controls'.src = controls.src
            /\ ~controls'.plotted]_vars
    /\ [][controls'.plotted =>
            /\ controls'.src = controls'.state
            /\ controls'.state[1] <= controls'.state[2]]_vars

\* The min slider was put above the max slider: the state kept its low end
\* and no plot was asked for.
C37_Witness ==
    /\ controls.event.on = "minSlider"
    /\ ~controls.plotted
    /\ controls.event.value > controls.state[2]
    /\ controls.state[1] < controls.state[2]
    /\ controls.src = controls.state

\* C38 as stated: after every event the min slider, the min number input and
\* state[name][0] hold the same number, and so do the max slider, the max
\* number input and state[name][1].
C38_Original ==
    /\ controls.minSlider = controls.state[1]
    /\ controls.minInput = controls.state[1]
    /\ controls.maxSlider = controls.state[2]
    /\ controls.maxInput = controls.state[2]

\* Every request the page sent has been answered and its answer handled.
PageAtRest == page.sent > 0 /\ page.requests = {} /\ page.responses = {}

\* C39 as stated: of several updates sent in quick succession the plot of the
\* one sent last is the one left on display: the answer to an earlier request
\* never replaces the plot of a later one.
C39_Original ==
    PageAtRest => page.plot = page.returned[page.sent]

====
